---------------------------- MODULE Spec2Model ----------------------------
(***************************************************************************)
(* Proof and ProofShare of src/proof.rs: quorum proofs over BLS threshold  *)
(* signatures.                                                             *)
(*                                                                         *)
(* proof.rs delegates every cryptographic step to threshold_crypto (bls).  *)
(* The library is modelled by what it computes, on a pairing of prime      *)
(* order FieldOrder that is small enough to enumerate:                     *)
(*   G1 = the order-FieldOrder subgroup of (Z/G1Mod)*, generator G1Gen     *)
(*   G2 = the order-FieldOrder subgroup of (Z/G2Mod)*, generator G2Gen     *)
(*   Gt = the order-FieldOrder subgroup of (Z/GtMod)*, generator GtGen     *)
(*   Pairing(G1Gen^a, G2Gen^b) = GtGen^(a*b)   (bilinear, non-degenerate)  *)
(* Groups are written multiplicatively.  Two cryptographic assumptions are *)
(* built in: hash_g2 is injective on the payloads of the model and never   *)
(* yields the identity of G2.                                              *)
(***************************************************************************)
EXTENDS Integers, Sequences, FiniteSets

VARIABLES
    proof,      \* the Proof instance: [public_key, signature]
    pOrigin,    \* how the Proof was put together (secret key, payload)
    pCalls,     \* Proof::verify calls made on the instance: {[payload, value]}
    pOut,       \* last encoding / decoding of the Proof
    share,      \* the ProofShare instance
    sArgs,      \* the arguments ProofShare::new was called with
    sOut,       \* outcome of the last operation on the ProofShare
    pc,         \* per caller: position inside a concurrent verify call
    arg,        \* per caller: the payload of its verify call
    local,      \* per caller: the call's local values
    result,     \* per caller: what its last verify call returned
    built       \* the two instances as they were constructed

vars == <<proof, pOrigin, pCalls, pOut, share, sArgs, sOut,
          pc, arg, local, result, built>>

(***************************************************************************)
(* Bounds                                                                  *)
(***************************************************************************)
MaxPayload == 2     \* payloads are 1..MaxPayload
MaxDegree  == 1     \* key sets have threshold (polynomial degree) 0..MaxDegree
MaxMember  == 2     \* the dealer handed out shares to members 0..MaxMember

Payloads == 1..MaxPayload
Members  == 0..MaxMember
\* every index a caller may write into a ProofShare: the members and one
\* position beyond them
Indices  == 0..(MaxMember + 1)

(***************************************************************************)
(* threshold_crypto: the groups and the pairing                            *)
(***************************************************************************)
FieldOrder == 7
G1Mod == 29
G1Gen == 16
G2Mod == 43
G2Gen == 41
GtMod == 71
GtGen == 30

Fr == 0..(FieldOrder - 1)

RECURSIVE ModPow(_, _, _)
ModPow(m, b, e) == IF e = 0 THEN 1 ELSE (b * ModPow(m, b, e - 1)) % m

G1Exp(a, k) == ModPow(G1Mod, a, k % FieldOrder)
G2Exp(a, k) == ModPow(G2Mod, a, k % FieldOrder)
GtExp(a, k) == ModPow(GtMod, a, k % FieldOrder)
G1Mul(a, b) == (a * b) % G1Mod

G1 == {G1Exp(G1Gen, k) : k \in Fr}
G2 == {G2Exp(G2Gen, k) : k \in Fr}
G1Identity == G1Exp(G1Gen, 0)
G2Identity == G2Exp(G2Gen, 0)

DLog1(a) == CHOOSE k \in Fr : G1Exp(G1Gen, k) = a
DLog2(b) == CHOOSE k \in Fr : G2Exp(G2Gen, k) = b

\* PEngine::pairing
Pairing(a, b) == GtExp(GtGen, DLog1(a) * DLog2(b))

\* hash_g2(msg): a point of G2, never the identity, distinct per payload
HashG2(msg) == G2Exp(G2Gen, (3 * msg) % FieldOrder)

\* SecretKey::public_key: G1Affine::one() * sk
SecretKeyPublicKey(sk) == G1Exp(G1Gen, sk)

\* SecretKey::sign / SecretKeyShare::sign: hash_g2(msg) * sk
SecretKeySign(sk, msg) == G2Exp(HashG2(msg), sk)

\* PublicKey::verify / PublicKeyShare::verify:
\*   pairing(pk, hash_g2(msg)) == pairing(G1Affine::one(), sig)
PublicKeyVerify(pk, sig, msg) == Pairing(pk, HashG2(msg)) = Pairing(G1Gen, sig)

(***************************************************************************)
(* threshold_crypto: key sets.  A SecretKeySet is a polynomial over Fr     *)
(* (coefficients lowest first), a PublicKeySet the commitment to it.       *)
(***************************************************************************)
Polys == UNION {[1..n -> Fr] : n \in 1..(MaxDegree + 1)}

\* Poly::evaluate, Horner's rule from the highest coefficient down
RECURSIVE PolyEvalFrom(_, _, _)
PolyEvalFrom(poly, x, k) ==
    IF k = Len(poly) THEN poly[k]
    ELSE (PolyEvalFrom(poly, x, k + 1) * x + poly[k]) % FieldOrder

PolyEvaluate(poly, x) == PolyEvalFrom(poly, x, 1)

\* Commitment::evaluate, the same rule in G1
RECURSIVE CommitEvalFrom(_, _, _)
CommitEvalFrom(commit, x, k) ==
    IF k = Len(commit) THEN commit[k]
    ELSE G1Mul(G1Exp(CommitEvalFrom(commit, x, k + 1), x), commit[k])

CommitmentEvaluate(commit, x) == CommitEvalFrom(commit, x, 1)

\* into_fr_plus_1: member i is the point i + 1 of the polynomial
IntoFrPlus1(i) == (i + 1) % FieldOrder

\* SecretKeySet::public_keys: Poly::commitment
PublicKeys(poly) == [k \in DOMAIN poly |-> G1Exp(G1Gen, poly[k])]

\* SecretKeySet::secret_key_share(i)
SecretKeyShare(poly, i) == PolyEvaluate(poly, IntoFrPlus1(i))

\* PublicKeySet::public_key: the commitment's constant coefficient
PublicKeySetPublicKey(pks) == pks[1]

\* PublicKeySet::public_key_share(i)
PublicKeyShare(pks, i) == CommitmentEvaluate(pks, IntoFrPlus1(i))

PublicKeySets == {PublicKeys(poly) : poly \in Polys}

(***************************************************************************)
(* Proof                                                                   *)
(***************************************************************************)
MkProof(public_key, signature) ==
    [public_key |-> public_key, signature |-> signature]

\* a mutant: the payload is not looked at
ProofVerifyAnyPayload(p, payload) ==
    \E m \in Payloads : PublicKeyVerify(p.public_key, p.signature, m)

\* a mutant: the check is made against the generator instead of the key
ProofVerifyNoKey(p, payload) ==
    PublicKeyVerify(G1Gen, p.signature, payload)

\* a mutant: key and signature change places in the pairing equation
ProofVerifySwapped(p, payload) ==
    Pairing(G1Gen, HashG2(payload)) = Pairing(p.public_key, p.signature)

\* Proof::verify
ProofVerify(p, payload) ==
    PublicKeyVerify(p.public_key, p.signature, payload)

\* #[derive(PartialEq, Eq)]: field by field
ProofEq(a, b) == a.public_key = b.public_key /\ a.signature = b.signature

\* #[derive(Hash)]: what is fed to the hasher, in field order
ProofHash(p) == <<p.public_key, p.signature>>

\* a mutant: the fields are written in the other order
ProofSerializeSwapped(p) == <<p.signature, p.public_key>>

\* #[derive(Serialize)]: the fields in declared order, each as its group
\* element's compressed form
ProofSerialize(p) == <<p.public_key, p.signature>>

\* #[derive(Deserialize)]: reads the fields back in declared order; a value
\* that is no element of its group is malformed key material
ProofDeserialize(bytes) ==
    IF Len(bytes) = 2 /\ bytes[1] \in G1 /\ bytes[2] \in G2
    THEN [ok |-> TRUE, value |-> MkProof(bytes[1], bytes[2])]
    ELSE [ok |-> FALSE, value |-> MkProof(G1Identity, G2Identity)]

NoOut == [op |-> "none", bytes |-> <<>>, ok |-> FALSE,
          value |-> MkProof(G1Identity, G2Identity)]

(***************************************************************************)
(* Operations on the Proof instance                                        *)
(***************************************************************************)
\* tests::verify_proof: a secret key signs a payload, the Proof is put
\* together from its public key and that signature
SignProof(sk, payload) ==
    /\ proof' = MkProof(SecretKeyPublicKey(sk), SecretKeySign(sk, payload))
    /\ pOrigin' = [how |-> "signed", sk |-> sk, payload |-> payload,
                   public_key |-> SecretKeyPublicKey(sk)]
    /\ pCalls' = {}
    /\ pOut' = NoOut
    /\ UNCHANGED <<share, sArgs, sOut, pc, arg, local, result, built>>

\* the fields are public: a Proof is put together from any key and signature
AssembleProof(public_key, signature) ==
    /\ proof' = MkProof(public_key, signature)
    /\ pOrigin' = [how |-> "assembled", sk |-> 0, payload |-> 0,
                   public_key |-> public_key]
    /\ pCalls' = {}
    /\ pOut' = NoOut
    /\ UNCHANGED <<share, sArgs, sOut, pc, arg, local, result, built>>

\* the public key of a signed Proof is replaced by another key, the
\* signature kept
ReplaceKey(k2) ==
    /\ pOrigin.how = "signed"
    /\ k2 # proof.public_key
    /\ proof' = [proof EXCEPT !.public_key = k2]
    /\ pOrigin' = [pOrigin EXCEPT !.how = "rekeyed"]
    /\ pCalls' = {}
    /\ pOut' = NoOut
    /\ UNCHANGED <<share, sArgs, sOut, pc, arg, local, result, built>>

\* Proof::verify(payload)
VerifyProof(payload) ==
    /\ pCalls' = pCalls \cup
                   {[payload |-> payload, value |-> ProofVerify(proof, payload)]}
    /\ UNCHANGED <<proof, pOrigin, pOut>>
    /\ UNCHANGED <<share, sArgs, sOut, pc, arg, local, result, built>>

\* serialize the Proof
EncodeProof ==
    /\ pOut' = [NoOut EXCEPT !.op = "encode", !.bytes = ProofSerialize(proof)]
    /\ UNCHANGED <<proof, pOrigin, pCalls>>
    /\ UNCHANGED <<share, sArgs, sOut, pc, arg, local, result, built>>

\* deserialize what was serialized
DecodeProof ==
    /\ pOut.op = "encode"
    /\ LET d == ProofDeserialize(pOut.bytes)
       IN pOut' = [op |-> "decode", bytes |-> pOut.bytes,
                   ok |-> d.ok, value |-> d.value]
    /\ UNCHANGED <<proof, pOrigin, pCalls>>
    /\ UNCHANGED <<share, sArgs, sOut, pc, arg, local, result, built>>

(***************************************************************************)
(* ProofShare                                                              *)
(***************************************************************************)
MkShare(public_key_set, index, signature_share) ==
    [public_key_set |-> public_key_set, index |-> index,
     signature_share |-> signature_share]

\* a mutant: the constructor forces the index into the member positions
ProofShareNewClamped(public_key_set, index, secret_key_share, payload) ==
    MkShare(public_key_set,
            IF index \in Members THEN index ELSE MaxMember,
            SecretKeySign(secret_key_share, payload))

\* ProofShare::new
ProofShareNew(public_key_set, index, secret_key_share, payload) ==
    MkShare(public_key_set, index, SecretKeySign(secret_key_share, payload))

\* a mutant: the share is checked against the group's public key
ProofShareVerifyGroupKey(s, payload) ==
    PublicKeyVerify(PublicKeySetPublicKey(s.public_key_set),
                    s.signature_share, payload)

\* a mutant: the share is checked against the first member's key share,
\* whatever its index
ProofShareVerifyFirstMember(s, payload) ==
    PublicKeyVerify(PublicKeyShare(s.public_key_set, 0),
                    s.signature_share, payload)

\* ProofShare::verify
ProofShareVerify(s, payload) ==
    PublicKeyVerify(PublicKeyShare(s.public_key_set, s.index),
                    s.signature_share, payload)

\* Debug of bls::PublicKey
PublicKeyDebug(pk) == <<"PublicKey(", pk, ")">>

\* a mutant: the signature share is rendered too
ProofShareDebugAll(s) ==
    <<"ProofShare { public_key: ">>
        \o PublicKeyDebug(PublicKeySetPublicKey(s.public_key_set))
        \o <<", index: ", s.index, ", signature_share: ", s.signature_share, " }">>

\* impl Debug for ProofShare
ProofShareDebug(s) ==
    <<"ProofShare { public_key: ">>
        \o PublicKeyDebug(PublicKeySetPublicKey(s.public_key_set))
        \o <<", index: ", s.index, ", .. }">>

\* #[derive(PartialEq, Eq)]: field by field
ProofShareEq(a, b) ==
    /\ a.public_key_set = b.public_key_set
    /\ a.index = b.index
    /\ a.signature_share = b.signature_share

\* #[derive(Hash)]: what is fed to the hasher, in field order (a Vec feeds
\* its length first)
ProofShareHash(s) ==
    <<Len(s.public_key_set)>> \o s.public_key_set
        \o <<s.index, s.signature_share>>

\* #[derive(Serialize)]: the fields in declared order; the key set is the
\* commitment's coefficient vector, length first
ProofShareSerialize(s) ==
    <<Len(s.public_key_set)>> \o s.public_key_set
        \o <<s.index, s.signature_share>>

NoShare == MkShare(<<G1Identity>>, 0, G2Identity)

\* #[derive(Deserialize)]: reads the fields back in declared order
ProofShareDeserialize(bytes) ==
    LET n == bytes[1]
    IN IF /\ Len(bytes) >= 4
          /\ n >= 1
          /\ Len(bytes) = n + 3
          /\ \A k \in 2..(n + 1) : bytes[k] \in G1
          /\ bytes[n + 2] >= 0
          /\ bytes[n + 3] \in G2
       THEN [ok |-> TRUE,
             value |-> MkShare(SubSeq(bytes, 2, n + 1), bytes[n + 2], bytes[n + 3])]
       ELSE [ok |-> FALSE, value |-> NoShare]

NoArgs == [key_set |-> <<0>>, public_key_set |-> <<G1Identity>>, index |-> 0,
           secret_key_share |-> 0, payload |-> 0]

NoShareOut == [op |-> "none", payload |-> 0, err |-> "none", value |-> FALSE,
               text |-> <<>>, bytes |-> <<>>, ok |-> FALSE, decoded |-> NoShare]

(***************************************************************************)
(* Operations on the ProofShare instance                                   *)
(***************************************************************************)
\* ProofShare::new(public_key_set, index, secret_key_share, payload), called
\* once, with the public keys of the dealer's key set, any index and any
\* secret key share
NewShare ==
    /\ sOut.op = "none"
    /\ \E key_set \in Polys, index \in Indices, secret_key_share \in Fr,
          payload \in Payloads :
          /\ share' = ProofShareNew(PublicKeys(key_set), index,
                                    secret_key_share, payload)
          /\ sArgs' = [key_set |-> key_set,
                       public_key_set |-> PublicKeys(key_set),
                       index |-> index,
                       secret_key_share |-> secret_key_share,
                       payload |-> payload]
    /\ sOut' = [NoShareOut EXCEPT !.op = "new"]
    /\ UNCHANGED <<proof, pOrigin, pCalls, pOut, pc, arg, local, result, built>>

\* a mutant: an index that is no member position is reported as an error
VerifyShareChecked(payload) ==
    /\ sOut.op # "none"
    /\ sOut' = [NoShareOut EXCEPT
                  !.op = "verify",
                  !.payload = payload,
                  !.err = IF share.index \in Members THEN "none" ELSE "InvalidIndex",
                  !.value = share.index \in Members /\ ProofShareVerify(share, payload)]
    /\ UNCHANGED <<share, sArgs>>
    /\ UNCHANGED <<proof, pOrigin, pCalls, pOut, pc, arg, local, result, built>>

\* ProofShare::verify(payload): the result is a bool, there is no error
\* outcome
VerifyShare(payload) ==
    /\ sOut.op # "none"
    /\ sOut' = [NoShareOut EXCEPT
                  !.op = "verify",
                  !.payload = payload,
                  !.value = ProofShareVerify(share, payload)]
    /\ UNCHANGED <<share, sArgs>>
    /\ UNCHANGED <<proof, pOrigin, pCalls, pOut, pc, arg, local, result, built>>

\* format!("{:?}", share)
DebugShare ==
    /\ sOut.op # "none"
    /\ sOut' = [NoShareOut EXCEPT !.op = "debug", !.text = ProofShareDebug(share)]
    /\ UNCHANGED <<share, sArgs>>
    /\ UNCHANGED <<proof, pOrigin, pCalls, pOut, pc, arg, local, result, built>>

\* serialize the ProofShare
EncodeShare ==
    /\ sOut.op # "none"
    /\ sOut' = [NoShareOut EXCEPT !.op = "encode",
                                  !.bytes = ProofShareSerialize(share)]
    /\ UNCHANGED <<share, sArgs>>
    /\ UNCHANGED <<proof, pOrigin, pCalls, pOut, pc, arg, local, result, built>>

\* deserialize what was serialized
DecodeShare ==
    /\ sOut.op = "encode"
    /\ LET d == ProofShareDeserialize(sOut.bytes)
       IN sOut' = [NoShareOut EXCEPT !.op = "decode", !.bytes = sOut.bytes,
                                     !.ok = d.ok, !.decoded = d.value]
    /\ UNCHANGED <<share, sArgs>>
    /\ UNCHANGED <<proof, pOrigin, pCalls, pOut, pc, arg, local, result, built>>

(***************************************************************************)
(* Callers that are not part of a specification stay as they start         *)
(***************************************************************************)
NumCallers == 2
Callers == 1..NumCallers

IdleCallers ==
    /\ pc = [c \in Callers |-> "idle"]
    /\ arg = [c \in Callers |-> 0]
    /\ local = [c \in Callers |-> G1Identity]
    /\ result = [c \in Callers |-> FALSE]

NoProof == MkProof(G1Identity, G2Identity)
NoOrigin == [how |-> "none", sk |-> 0, payload |-> 0, public_key |-> G1Identity]

(***************************************************************************)
(* SpecProof: one Proof instance, put together and verified                *)
(***************************************************************************)
InitProof ==
    /\ \E sk \in Fr, payload \in Payloads :
          /\ proof = MkProof(SecretKeyPublicKey(sk), SecretKeySign(sk, payload))
          /\ pOrigin = [how |-> "signed", sk |-> sk, payload |-> payload,
                        public_key |-> SecretKeyPublicKey(sk)]
    /\ pCalls = {}
    /\ pOut = NoOut
    /\ share = NoShare
    /\ sArgs = NoArgs
    /\ sOut = NoShareOut
    /\ IdleCallers
    /\ built = [proof |-> NoProof, share |-> NoShare]

NextProof ==
    \/ \E sk \in Fr, payload \in Payloads : SignProof(sk, payload)
    \/ \E public_key \in G1, signature \in G2 : AssembleProof(public_key, signature)
    \/ \E k2 \in G1 : ReplaceKey(k2)
    \/ \E payload \in Payloads : VerifyProof(payload)

SpecProof == InitProof /\ [][NextProof]_vars

(***************************************************************************)
(* SpecShare: one ProofShare instance, constructed, verified and rendered  *)
(***************************************************************************)
InitShare ==
    /\ proof = NoProof
    /\ pOrigin = NoOrigin
    /\ pCalls = {}
    /\ pOut = NoOut
    /\ share = NoShare
    /\ sArgs = NoArgs
    /\ sOut = NoShareOut
    /\ IdleCallers
    /\ built = [proof |-> NoProof, share |-> NoShare]

NextShare ==
    \/ NewShare
    \/ \E payload \in Payloads : VerifyShare(payload)
    \/ DebugShare

SpecShare == InitShare /\ [][NextShare]_vars

(***************************************************************************)
(* SpecCodec: a ProofShare and the Proof of the same group key and         *)
(* signature, serialized and deserialized                                  *)
(***************************************************************************)
InitCodec ==
    /\ \E public_key_set \in PublicKeySets, index \in Indices, signature \in G2 :
          /\ share = MkShare(public_key_set, index, signature)
          /\ proof = MkProof(PublicKeySetPublicKey(public_key_set), signature)
    /\ pOrigin = NoOrigin
    /\ pCalls = {}
    /\ pOut = NoOut
    /\ sArgs = NoArgs
    /\ sOut = [NoShareOut EXCEPT !.op = "held"]
    /\ IdleCallers
    /\ built = [proof |-> NoProof, share |-> NoShare]

NextCodec ==
    \/ EncodeProof
    \/ DecodeProof
    \/ EncodeShare
    \/ DecodeShare

SpecCodec == InitCodec /\ [][NextCodec]_vars

(***************************************************************************)
(* Concurrent verify calls on one Proof and one ProofShare.  A call on the *)
(* ProofShare first derives the public key share (line 59), then checks    *)
(* the signature share against it (line 60); other callers run in between. *)
(***************************************************************************)
\* a caller enters Proof::verify(payload)
CallProof(c, payload) ==
    /\ pc[c] = "idle"
    /\ pc' = [pc EXCEPT ![c] = "proof_called"]
    /\ arg' = [arg EXCEPT ![c] = payload]
    /\ UNCHANGED <<local, result>>
    /\ UNCHANGED <<proof, pOrigin, pCalls, pOut, share, sArgs, sOut, built>>

\* self.public_key.verify(&self.signature, payload)
ProofCheck(c) ==
    /\ pc[c] = "proof_called"
    /\ result' = [result EXCEPT
                    ![c] = PublicKeyVerify(proof.public_key, proof.signature, arg[c])]
    /\ pc' = [pc EXCEPT ![c] = "proof_done"]
    /\ UNCHANGED <<arg, local>>
    /\ UNCHANGED <<proof, pOrigin, pCalls, pOut, share, sArgs, sOut, built>>

\* a caller enters ProofShare::verify(payload)
CallShare(c, payload) ==
    /\ pc[c] = "idle"
    /\ pc' = [pc EXCEPT ![c] = "share_called"]
    /\ arg' = [arg EXCEPT ![c] = payload]
    /\ UNCHANGED <<local, result>>
    /\ UNCHANGED <<proof, pOrigin, pCalls, pOut, share, sArgs, sOut, built>>

\* a mutant: deriving the key share moves the index on, as an iterator would
ShareDeriveAdvancing(c) ==
    /\ pc[c] = "share_called"
    /\ local' = [local EXCEPT
                   ![c] = PublicKeyShare(share.public_key_set, share.index)]
    /\ share' = [share EXCEPT !.index = share.index + 1]
    /\ pc' = [pc EXCEPT ![c] = "share_derived"]
    /\ UNCHANGED <<arg, result>>
    /\ UNCHANGED <<proof, pOrigin, pCalls, pOut, sArgs, sOut, built>>

\* self.public_key_set.public_key_share(self.index)
ShareDerive(c) ==
    /\ pc[c] = "share_called"
    /\ local' = [local EXCEPT
                   ![c] = PublicKeyShare(share.public_key_set, share.index)]
    /\ pc' = [pc EXCEPT ![c] = "share_derived"]
    /\ UNCHANGED <<arg, result>>
    /\ UNCHANGED <<proof, pOrigin, pCalls, pOut, share, sArgs, sOut, built>>

\* .verify(&self.signature_share, payload) on the derived key share
ShareCheck(c) ==
    /\ pc[c] = "share_derived"
    /\ result' = [result EXCEPT
                    ![c] = PublicKeyVerify(local[c], share.signature_share, arg[c])]
    /\ pc' = [pc EXCEPT ![c] = "share_done"]
    /\ UNCHANGED <<arg, local>>
    /\ UNCHANGED <<proof, pOrigin, pCalls, pOut, share, sArgs, sOut, built>>

\* the call returns; the caller may call again
Return(c) ==
    /\ pc[c] \in {"proof_done", "share_done"}
    /\ pc' = [pc EXCEPT ![c] = "idle"]
    /\ arg' = [arg EXCEPT ![c] = 0]
    /\ local' = [local EXCEPT ![c] = G1Identity]
    /\ result' = [result EXCEPT ![c] = FALSE]
    /\ UNCHANGED <<proof, pOrigin, pCalls, pOut, share, sArgs, sOut, built>>

\* the key sets the concurrent callers' instances are made from: of the
\* highest threshold, every coefficient above the master secret being one
ConcKeySets ==
    {ks \in Polys : Len(ks) = MaxDegree + 1 /\ \A k \in 2..Len(ks) : ks[k] = 1}

\* a member's share over a payload, and the group's proof over the same
\* payload (the signature of the key set's master secret)
InitConc ==
    /\ \E key_set \in ConcKeySets, index \in Members, payload \in Payloads :
          /\ share = ProofShareNew(PublicKeys(key_set), index,
                                   SecretKeyShare(key_set, index), payload)
          /\ proof = MkProof(PublicKeySetPublicKey(PublicKeys(key_set)),
                             SecretKeySign(key_set[1], payload))
    /\ built = [proof |-> proof, share |-> share]
    /\ pOrigin = NoOrigin
    /\ pCalls = {}
    /\ pOut = NoOut
    /\ sArgs = NoArgs
    /\ sOut = [NoShareOut EXCEPT !.op = "held"]
    /\ IdleCallers

NextConc ==
    \E c \in Callers :
        \/ \E payload \in Payloads : CallProof(c, payload)
        \/ ProofCheck(c)
        \/ \E payload \in Payloads : CallShare(c, payload)
        \/ ShareDerive(c)
        \/ ShareCheck(c)
        \/ Return(c)

SpecConc == InitConc /\ [][NextConc]_vars

(***************************************************************************)
(* Claims about Proof, under SpecProof                                     *)
(***************************************************************************)
\* C1: a Proof built from the public key of a secret key sk and sk's
\* signature over a payload returns true from verify on that payload.
C1_SignedProofVerifies ==
    pOrigin.how = "signed" =>
        \A c \in pCalls : c.payload = pOrigin.payload => c.value = TRUE

\* a signed Proof was verified against the payload that was signed
C1_Witness ==
    /\ pOrigin.how = "signed"
    /\ pOrigin.sk > 1
    /\ \E c \in pCalls : c.payload = pOrigin.payload /\ c.value = TRUE

\* C2 as stated: once a Proof has verified against a payload, verify on any
\* other payload returns false.
C2_NoTransferAcrossPayloads ==
    \A a \in pCalls, b \in pCalls :
        (a.value = TRUE /\ b.payload # a.payload) => b.value = FALSE

\* C2, amended: a Proof whose public key is not the identity of G1 and that
\* has verified against a payload returns false from verify on any other
\* payload.
C2_NoTransferUnlessIdentityKey ==
    proof.public_key # G1Identity =>
        \A a \in pCalls, b \in pCalls :
            (a.value = TRUE /\ b.payload # a.payload) => b.value = FALSE

\* a Proof with a proper key verified against one payload and was refused
\* for another
C2_Witness ==
    /\ proof.public_key # G1Identity
    /\ \E a \in pCalls, b \in pCalls :
          a.value = TRUE /\ b.payload # a.payload /\ b.value = FALSE

\* C3: a signed Proof whose public key was replaced by a different key, the
\* signature kept, returns false from verify on the payload that was signed.
C3_NoTransferAcrossKeys ==
    pOrigin.how = "rekeyed" =>
        \A c \in pCalls : c.payload = pOrigin.payload => c.value = FALSE

\* a Proof whose key was replaced was verified against the signed payload
C3_Witness ==
    /\ pOrigin.how = "rekeyed"
    /\ proof.public_key # pOrigin.public_key
    /\ proof.signature = SecretKeySign(pOrigin.sk, pOrigin.payload)
    /\ \E c \in pCalls : c.payload = pOrigin.payload /\ c.value = FALSE

(***************************************************************************)
(* Claims about ProofShare, under SpecShare                                *)
(***************************************************************************)
\* the share was made by ProofShare::new from member i's own secret key share
SignedByMember(i) ==
    /\ i \in Members
    /\ sArgs.secret_key_share = SecretKeyShare(sArgs.key_set, i)

\* C4: ProofShare::new(key_set, i, share_i, p).verify(p) is true for every
\* member index i and the secret key share of member i.
C4_ShareRoundTrip ==
    (/\ sOut.op = "verify"
     /\ sOut.payload = sArgs.payload
     /\ SignedByMember(sArgs.index))
        => (sOut.err = "none" /\ sOut.value = TRUE)

\* a member's own share, over a key set of threshold >= 1, was verified
C4_Witness ==
    /\ sOut.op = "verify"
    /\ sOut.payload = sArgs.payload
    /\ SignedByMember(sArgs.index)
    /\ Len(sArgs.key_set) > 1
    /\ sArgs.key_set[Len(sArgs.key_set)] # 0
    /\ sOut.value = TRUE

\* C5 as stated: a share signed by member i but carrying the index of
\* another member j returns false from verify on the signed payload.
C5_CrossIndexFails ==
    \A i \in Members :
        (/\ sOut.op = "verify"
         /\ sOut.payload = sArgs.payload
         /\ share.index \in Members
         /\ share.index # i
         /\ SignedByMember(i))
            => sOut.value = FALSE

\* C5, amended: such a share returns false exactly when the key set's public
\* key shares of i and j differ, and true when they coincide.
C5_CrossIndexFailsIffKeySharesDiffer ==
    \A i \in Members :
        (/\ sOut.op = "verify"
         /\ sOut.payload = sArgs.payload
         /\ share.index \in Members
         /\ share.index # i
         /\ SignedByMember(i))
            => (sOut.value = FALSE <=>
                  PublicKeyShare(share.public_key_set, i)
                    # PublicKeyShare(share.public_key_set, share.index))

\* a share signed by one member and carrying another member's index was
\* refused
C5_Witness ==
    \E i \in Members :
        /\ sOut.op = "verify"
        /\ sOut.payload = sArgs.payload
        /\ share.index \in Members
        /\ share.index # i
        /\ SignedByMember(i)
        /\ sOut.value = FALSE

C7_NewCopiesAndSigns ==
    sOut.op # "none" =>
        /\ share.public_key_set = sArgs.public_key_set
        /\ share.index = sArgs.index
        /\ share.signature_share =
             SecretKeySign(sArgs.secret_key_share, sArgs.payload)
        /\ (sOut.op = "new" => sOut.err = "none")

\* new was called with an index that is no member position and a secret key
\* share that belongs to no member
C7_Witness ==
    /\ sOut.op = "new"
    /\ share.index \notin Members
    /\ share.index = sArgs.index
    /\ \A i \in Indices : sArgs.secret_key_share # SecretKeyShare(sArgs.key_set, i)

\* the shares that differ from s in the signature share alone, or in the
\* key set's coefficients above the constant one alone
Twins(s) ==
    {[s EXCEPT !.signature_share = g] : g \in G2}
        \cup {[s EXCEPT !.public_key_set = <<s.public_key_set[1]>> \o rest] :
                rest \in UNION {[1..n -> G1] : n \in 0..MaxDegree}}

\* C9: the Debug rendering is the same for all shares with the same group
\* public key and index, whatever their signature share and remaining
\* commitment, while equality tells any two different shares apart.
C9_DebugShowsKeyAndIndexOnly ==
    sOut.op = "debug" =>
        \A t \in Twins(share) :
            /\ ProofShareDebug(t) = sOut.text
            /\ (ProofShareEq(t, share) <=> t = share)

\* a share was rendered, and a share with another signature share and one
\* with another commitment render the same and are not equal to it
C9_Witness ==
    /\ sOut.op = "debug"
    /\ \E t \in Twins(share) :
          /\ t.signature_share # share.signature_share
          /\ ProofShareDebug(t) = sOut.text
          /\ ~ProofShareEq(t, share)
    /\ \E t \in Twins(share) :
          /\ t.public_key_set # share.public_key_set
          /\ ProofShareDebug(t) = sOut.text
          /\ ~ProofShareEq(t, share)

(***************************************************************************)
(* Claim about concurrent calls, under SpecConc                            *)
(***************************************************************************)
\* C8: however the verify calls of several callers on the same Proof and
\* ProofShare interleave, the instances stay as they were constructed and
\* every finished call has returned what verify yields for its payload on
\* the instance alone.
C8_ConcurrentVerifyIsPure ==
    /\ proof = built.proof
    /\ share = built.share
    /\ \A c \in Callers :
          /\ pc[c] = "proof_done" => result[c] = ProofVerify(built.proof, arg[c])
          /\ pc[c] = "share_done" =>
                result[c] = ProofShareVerify(built.share, arg[c])

\* one caller is in the middle of a call on the ProofShare while another
\* has finished one on it, accepted, with another payload
C8_Witness ==
    \E c \in Callers, d \in Callers :
        /\ c # d
        /\ pc[c] = "share_derived"
        /\ pc[d] = "share_done"
        /\ arg[c] # arg[d]
        /\ result[d] = TRUE

=============================================================================
